---- MODULE Spec2Model ----
(***************************************************************************)
(* Model of auth-middleware-for-actix-web (authfix):                       *)
(*   - MfaRandomCode (src/src/multifactor/send_random_code.rs): the        *)
(*     generate_code / check_code protocol over the session store;        *)
(*   - AuthToken (src/src/lib.rs): the shared Rc<RefCell<..>> token and    *)
(*     its FromRequest extractor;                                          *)
(*   - the request gate (PathMatcher, AuthMiddleware, session provider     *)
(*     and login handlers), whose sources are not part of src/ and are     *)
(*     modelled from spec.md sections 3, 4 and 6, with the configuration   *)
(*     and handlers of src/tests/mfa_random_code_test.rs.                  *)
(* One client session is modelled; requests are served one at a time.      *)
(***************************************************************************)
EXTENDS Integers, Sequences, FiniteSets, TLC

\* ------------------------------------------------------------------ bounds
\* The clock runs over 0..MaxTime; expiry timestamps over 0..MaxTime+1.
MaxTime == 1
\* Handles (AuthToken values) alive in one request, the injected one included.
MaxHandles == 3
\* Live Ref<U> views of the principal in one request.
MaxRefs == 1
\* Wrong MFA submissions counted since the last login (ghost counter).
MaxWrong == 1
\* Patterns declared in one PathMatcher.
MaxPatterns == 2
\* Tokens created with AuthToken::new that are alive together.
MaxCells == 2

\* ------------------------------------------------------------- value sets
Users == {"anna", "bob"}
CodeValues == {"123abc", "777xyz"}
Candidates == CodeValues \cup {"oops wrong code"}
Times == 0..MaxTime
Expiries == 0..(MaxTime + 1)

\* ---------------------------------------------------------- session store
MFA_RANDOM_CODE_KEY == "mfa_random_code"
USER_KEY == "user"
MFA_DONE_KEY == "mfa_done"
PRIVATE_VALUE_KEY == "privateValue"
Keys == {MFA_RANDOM_CODE_KEY, USER_KEY, MFA_DONE_KEY, PRIVATE_VALUE_KEY}

\* A stored value is the serialized form of a typed value: it carries the
\* shape it was written with, and reads back only as that type.
NoValue == [type |-> "none"]
RandomCode(value, valid_until) ==
    [type |-> "RandomCode", value |-> value, valid_until |-> valid_until]
StringValue(s) == [type |-> "String", s |-> s]
UserValue(u) == [type |-> "User", name |-> u]
BoolValue(b) == [type |-> "bool", b |-> b]

EmptySession == [k \in Keys |-> NoValue]

\* Session::insert(key, value)
session_insert(s, key, value) == [s EXCEPT ![key] = value]

\* Session::purge()
session_purge(s) == EmptySession

\* Session::get::<T>(key) -> Result<Option<T>, Error>
session_get(s, key, T) ==
    IF s[key] = NoValue THEN [ok |-> TRUE, some |-> FALSE, val |-> NoValue]
    ELSE IF s[key].type = T THEN [ok |-> TRUE, some |-> TRUE, val |-> s[key]]
    ELSE [ok |-> FALSE, some |-> FALSE, val |-> NoValue]

\* -------------------------------------------------- MfaRandomCode (Factor)
\* mutant: the generate_code failure path forgets session.purge()
cleanup_and_unknown_error_no_purge(s, cause) ==
    [result |-> "GenerateCodeError", cause |-> cause, session |-> s]

cleanup_and_unknown_error(s, cause) ==
    [result |-> "GenerateCodeError", cause |-> cause, session |-> session_purge(s)]

\* mutant: the missing-code failure path forgets session.purge()
cleanup_and_unknown_code_error_no_purge(s) ==
    [result |-> "UnknownError", session |-> s]

cleanup_and_unknown_code_error(s) ==
    [result |-> "UnknownError", session |-> session_purge(s)]

\* mutant: the expiry failure path forgets session.purge()
cleanup_and_time_is_up_error_no_purge(s) ==
    [result |-> "TimeIsUp", session |-> s]

\* mutant: the expiry failure path removes the code and nothing else
cleanup_and_time_is_up_error_code_only(s) ==
    [result |-> "TimeIsUp",
     session |-> session_insert(s, MFA_RANDOM_CODE_KEY, NoValue)]

cleanup_and_time_is_up_error(s) ==
    [result |-> "TimeIsUp", session |-> session_purge(s)]

\* mutant: the session write keeps a code that is already pending
generate_code_keep_existing(s, random_code, insert_ok, send_ok) ==
    IF ~insert_ok
    THEN cleanup_and_unknown_error(s, "SessionInsertError")
         @@ [sent |-> NoValue,
             calls |-> <<"code_generator", "session.insert">>]
    ELSE LET s1 == IF s[MFA_RANDOM_CODE_KEY] = NoValue
                   THEN session_insert(s, MFA_RANDOM_CODE_KEY, random_code)
                   ELSE s
         IN
         IF ~send_ok
         THEN cleanup_and_unknown_error(s1, "SendError")
              @@ [sent |-> random_code,
                  calls |-> <<"code_generator", "session.insert", "send_code">>]
         ELSE [result |-> "Ok", cause |-> "", session |-> s1,
               sent |-> random_code,
               calls |-> <<"code_generator", "session.insert", "send_code">>]

\* mutant: the code is handed to the sender before it is written
generate_code_send_first(s, random_code, insert_ok, send_ok) ==
    IF ~send_ok
    THEN cleanup_and_unknown_error(s, "SendError")
         @@ [sent |-> random_code,
             calls |-> <<"code_generator", "send_code">>]
    ELSE IF ~insert_ok
         THEN cleanup_and_unknown_error(s, "SessionInsertError")
              @@ [sent |-> random_code,
                  calls |-> <<"code_generator", "send_code", "session.insert">>]
         ELSE [result |-> "Ok", cause |-> "",
               session |-> session_insert(s, MFA_RANDOM_CODE_KEY, random_code),
               sent |-> random_code,
               calls |-> <<"code_generator", "send_code", "session.insert">>]

\* generate_code: random_code is what the injected generator produced;
\* insert_ok and send_ok are the outcomes of the session write and of
\* CodeSender::send_code. sent is the code handed to the sender, calls the
\* calls to the generator, the session write and the sender in their order.
generate_code(s, random_code, insert_ok, send_ok) ==
    IF ~insert_ok
    THEN cleanup_and_unknown_error(s, "SessionInsertError")
         @@ [sent |-> NoValue,
             calls |-> <<"code_generator", "session.insert">>]
    ELSE LET s1 == session_insert(s, MFA_RANDOM_CODE_KEY, random_code) IN
         IF ~send_ok
         THEN cleanup_and_unknown_error(s1, "SendError")
              @@ [sent |-> random_code,
                  calls |-> <<"code_generator", "session.insert", "send_code">>]
         ELSE [result |-> "Ok", cause |-> "", session |-> s1,
               sent |-> random_code,
               calls |-> <<"code_generator", "session.insert", "send_code">>]

\* mutant: the expiry test is  now > valid_until
check_code_expiry_inclusive(s, t, code) ==
    LET loaded == session_get(s, MFA_RANDOM_CODE_KEY, "RandomCode") IN
    IF ~loaded.ok THEN cleanup_and_unknown_code_error(s)
    ELSE IF loaded.some
         THEN IF t > loaded.val.valid_until
              THEN cleanup_and_time_is_up_error(s)
              ELSE IF code # loaded.val.value
                   THEN [result |-> "InvalidCode", session |-> s]
                   ELSE [result |-> "Ok", session |-> s]
         ELSE cleanup_and_unknown_code_error(s)

\* mutant: the value is compared before the expiry is tested
check_code_value_first(s, t, code) ==
    LET loaded == session_get(s, MFA_RANDOM_CODE_KEY, "RandomCode") IN
    IF ~loaded.ok THEN cleanup_and_unknown_code_error(s)
    ELSE IF loaded.some
         THEN IF code # loaded.val.value
              THEN [result |-> "InvalidCode", session |-> s]
              ELSE IF t >= loaded.val.valid_until
                   THEN cleanup_and_time_is_up_error(s)
                   ELSE [result |-> "Ok", session |-> s]
         ELSE cleanup_and_unknown_code_error(s)

\* mutant: a wrong value purges the session
check_code_purge_on_invalid(s, t, code) ==
    LET loaded == session_get(s, MFA_RANDOM_CODE_KEY, "RandomCode") IN
    IF ~loaded.ok THEN cleanup_and_unknown_code_error(s)
    ELSE IF loaded.some
         THEN IF t >= loaded.val.valid_until
              THEN cleanup_and_time_is_up_error(s)
              ELSE IF code # loaded.val.value
                   THEN [result |-> "InvalidCode", session |-> session_purge(s)]
                   ELSE [result |-> "Ok", session |-> s]
         ELSE cleanup_and_unknown_code_error(s)

\* mutant: the value comparison is missing
check_code_skip_value(s, t, code) ==
    LET loaded == session_get(s, MFA_RANDOM_CODE_KEY, "RandomCode") IN
    IF ~loaded.ok THEN cleanup_and_unknown_code_error(s)
    ELSE IF loaded.some
         THEN IF t >= loaded.val.valid_until
              THEN cleanup_and_time_is_up_error(s)
              ELSE [result |-> "Ok", session |-> s]
         ELSE cleanup_and_unknown_code_error(s)

\* mutant: a success removes the code from the session
check_code_consume_on_success(s, t, code) ==
    LET loaded == session_get(s, MFA_RANDOM_CODE_KEY, "RandomCode") IN
    IF ~loaded.ok THEN cleanup_and_unknown_code_error(s)
    ELSE IF loaded.some
         THEN IF t >= loaded.val.valid_until
              THEN cleanup_and_time_is_up_error(s)
              ELSE IF code # loaded.val.value
                   THEN [result |-> "InvalidCode", session |-> s]
                   ELSE [result |-> "Ok",
                         session |-> session_insert(s, MFA_RANDOM_CODE_KEY,
                                                    NoValue)]
         ELSE cleanup_and_unknown_code_error(s)

\* check_code(code, req) at clock value t.
check_code(s, t, code) ==
    LET loaded == session_get(s, MFA_RANDOM_CODE_KEY, "RandomCode") IN
    IF ~loaded.ok THEN cleanup_and_unknown_code_error(s)
    ELSE IF loaded.some
         THEN IF t >= loaded.val.valid_until
              THEN cleanup_and_time_is_up_error(s)
              ELSE IF code # loaded.val.value
                   THEN [result |-> "InvalidCode", session |-> s]
                   ELSE [result |-> "Ok", session |-> s]
         ELSE cleanup_and_unknown_code_error(s)

get_unique_id == "RNDCODE"

\* ---------------------------------------------------- UnauthorizedError
UNAUTHORIZED == 401
OK == 200
\* the answer of an App to a request that matches none of its routes
NOT_FOUND == 404

\* impl Default for UnauthorizedError
UnauthorizedError_default == [message |-> "Not authorized"]

\* ResponseError::status_code
status_code(e) == UNAUTHORIZED

\* mutant: the body is the Display text instead of the message
error_response_display(e) ==
    [status |-> status_code(e), body |-> "Debug unauth error"]

\* ResponseError::error_response: HttpResponse::Unauthorized().json(message)
error_response(e) == [status |-> status_code(e), body |-> e.message]

\* ------------------------------------------------------------- AuthToken
\* The heap of one request: cells are the Rc<RefCell<AuthTokenInner>>
\* allocations (readers counts the live Ref<U> borrows of the cell), handles
\* are the AuthToken values.  origin records the AuthToken::new call a handle
\* descends from; the code keeps no such field.
EmptyHeap == [cells |-> <<>>, handles |-> <<>>]

\* AuthToken::new(user)
AuthToken_new(H, user) ==
    [cells |-> Append(H.cells, [user |-> user, is_valid |-> TRUE, readers |-> 0]),
     handles |-> Append(H.handles, [inner |-> Len(H.cells) + 1,
                                    origin |-> Len(H.cells) + 1])]

\* mutant: from_ref copies the inner cell instead of sharing it
AuthToken_from_ref_deep_copy(H, h) ==
    [cells |-> Append(H.cells, H.cells[H.handles[h].inner]),
     handles |-> Append(H.handles, [inner |-> Len(H.cells) + 1,
                                    origin |-> H.handles[h].origin])]

\* AuthToken::from_ref(token): Rc::clone of the inner cell
AuthToken_from_ref(H, h) ==
    [cells |-> H.cells,
     handles |-> Append(H.handles, [inner |-> H.handles[h].inner,
                                    origin |-> H.handles[h].origin])]

\* AuthToken::is_valid
AuthToken_is_valid(H, h) == H.cells[H.handles[h].inner].is_valid

\* AuthToken::get_authenticated_user: the principal seen through the handle
AuthToken_get_authenticated_user(H, h) == H.cells[H.handles[h].inner].user

\* RefCell::borrow_mut succeeds only while no Ref of the cell is alive
can_borrow_mut(H, h) == H.cells[H.handles[h].inner].readers = 0

\* mutant: invalidate clears the flag of every token
AuthToken_invalidate_all(H, h) ==
    [H EXCEPT !.cells = [c \in DOMAIN H.cells |->
                            [H.cells[c] EXCEPT !.is_valid = FALSE]]]

\* mutant: invalidate leaves the flag as it is
AuthToken_invalidate_noop(H, h) == H

\* AuthToken::invalidate, when borrow_mut succeeds
AuthToken_invalidate(H, h) ==
    [H EXCEPT !.cells[H.handles[h].inner].is_valid = FALSE]

\* taking and dropping the Ref<U> returned by get_authenticated_user
borrow_user(H, h) ==
    [H EXCEPT !.cells[H.handles[h].inner].readers = @ + 1]
release_user(H, h) ==
    [H EXCEPT !.cells[H.handles[h].inner].readers = @ - 1]

\* impl FromRequest for AuthToken: ext is the handle stored in the request
\* extensions (0 when the middleware injected none)
from_request(H, ext) ==
    IF ext # 0
    THEN [ok |-> TRUE, heap |-> AuthToken_from_ref(H, ext),
          response |-> [status |-> OK, body |-> ""]]
    ELSE [ok |-> FALSE, heap |-> H,
          response |-> error_response(UnauthorizedError_default)]

\* ------------------------------------------------------------ PathMatcher
\* A path and a pattern are sequences of segments; "*" is the wildcard.
LoginPath == <<"login">>
MfaPath == <<"login", "mfa">>
LogoutPath == <<"logout">>
SecuredPath == <<"secured-route">>
ManipulatePath == <<"unsecure", "manipulate-session">>
WhoamiPath == <<"unsecure", "whoami">>

\* The applications the middleware is built into. TestServer is the App of
\* start_test_server: secured_route and the routes of login_config.
\* ExampleApp registers in addition manipulate_session and, as the doc
\* comment of AuthToken describes, a handler that declares an AuthToken on a
\* route that is not secured.
TestServer == "start_test_server"
ExampleApp == "example_app"
Apps == {TestServer, ExampleApp}
Routes(a) ==
    {LoginPath, MfaPath, LogoutPath, SecuredPath}
        \cup (IF a = ExampleApp THEN {ManipulatePath, WhoamiPath} ELSE {})

\* PathMatcher::new(vec!["/login", "/unsecure/*"], true)
ConfiguredPatterns == << <<"login">>, <<"unsecure", "*">> >>
ConfiguredInvert == TRUE

RECURSIVE pattern_matches(_, _)
pattern_matches(pat, path) ==
    IF pat = <<>> THEN TRUE
    ELSE IF path = <<>> THEN FALSE
    ELSE IF Head(pat) = "*" THEN TRUE
    ELSE Head(pat) = Head(path) /\ pattern_matches(Tail(pat), Tail(path))

\* the patterns a PathMatcher is built from and the paths it is asked about
PatternPool == {<<"login">>, <<"unsecure", "*">>, <<"secured-route">>}
PatternLists == UNION {[1..n -> PatternPool] : n \in 0..MaxPatterns}
Paths ==
    {LoginPath, MfaPath, LogoutPath, SecuredPath, ManipulatePath, WhoamiPath}

\* mutant: first match wins, only the first declared pattern is consulted
matches_any_first_only(patterns, path) ==
    IF patterns = <<>> THEN FALSE
    ELSE pattern_matches(Head(patterns), path)

RECURSIVE matches_any(_, _)
matches_any(patterns, path) ==
    IF patterns = <<>> THEN FALSE
    ELSE IF pattern_matches(Head(patterns), path) THEN TRUE
    ELSE matches_any(Tail(patterns), path)

PathMatcher_is_protected(patterns, invert, path) ==
    IF invert THEN ~matches_any(patterns, path) ELSE matches_any(patterns, path)

is_protected(path) ==
    PathMatcher_is_protected(ConfiguredPatterns, ConfiguredInvert, path)

\* ----------------------------------- AuthenticationProvider and the gate
\* SessionAuthProvider::get_authenticated_user
Provider_get_authenticated_user(s) ==
    LET u == session_get(s, USER_KEY, "User") IN
    IF u.ok /\ u.some THEN [ok |-> TRUE, user |-> u.val.name]
    ELSE [ok |-> FALSE, user |-> ""]

\* SessionAuthProvider::invalidate
Provider_invalidate(s) == session_purge(s)

\* the session's record that the factor's challenge has been satisfied
mfa_satisfied(s) ==
    LET d == session_get(s, MFA_DONE_KEY, "bool") IN d.ok /\ d.some /\ d.val.b

\* the "mark session authenticated" step after a successful check_code
\* mutant: the marking step leaves the pending code in the session
mark_authenticated_keep_code(s) ==
    session_insert(s, MFA_DONE_KEY, BoolValue(TRUE))

mark_authenticated(s) ==
    session_insert(session_insert(s, MFA_DONE_KEY, BoolValue(TRUE)),
                   MFA_RANDOM_CODE_KEY, NoValue)

\* AuthMiddleware with a Factor configured, at the entry of a request
AuthMiddleware_call(s, path) ==
    IF ~is_protected(path) THEN [forward |-> TRUE, inject |-> FALSE, user |-> ""]
    ELSE LET r == Provider_get_authenticated_user(s) IN
         IF ~r.ok THEN [forward |-> FALSE, inject |-> FALSE, user |-> ""]
         ELSE IF ~mfa_satisfied(s)
              THEN [forward |-> FALSE, inject |-> FALSE, user |-> ""]
              ELSE [forward |-> TRUE, inject |-> TRUE, user |-> r.user]

\* mutant: the login handler keeps the values of the session it finds
login_session_keep(s, u) ==
    session_insert(session_insert(s, USER_KEY, UserValue(u)),
                   MFA_DONE_KEY, BoolValue(FALSE))

\* the login handler of SessionLoginHandler::with_mfa after the credentials
\* were accepted: a fresh session for the user, then the factor's challenge
login_session(s, u) ==
    session_insert(session_insert(session_purge(s), USER_KEY, UserValue(u)),
                   MFA_DONE_KEY, BoolValue(FALSE))

\* the code-acceptance rule of the RandomCode invariant: a pending code is
\* stored, the clock is strictly before its expiry, the candidate equals it
accepts(s, t, code) ==
    /\ s[MFA_RANDOM_CODE_KEY].type = "RandomCode"
    /\ t < s[MFA_RANDOM_CODE_KEY].valid_until
    /\ code = s[MFA_RANDOM_CODE_KEY].value

\* ------------------------------------------------------------------ state
VARIABLES
    session,    \* the client's session store: Keys -> stored value
    now,        \* SystemTime::now()
    req,        \* the request in flight: phase, path, extensions slot
    heap,       \* the AuthToken cells and handles of the request in flight
    last,       \* the operation performed by the last step and its outcome
    issued,     \* ghost: the code the generator produced most recently
    wrong,      \* ghost: InvalidCode outcomes since the code was generated
    passed,     \* ghost: an accepted code was submitted since the last login
    hist,       \* ghost: facts about the session's history (see NoHistory)
    app         \* the application that serves the requests (see Apps)

vars == <<session, now, req, heap, last, issued, wrong, passed, hist, app>>

\* inv: the handler of the request has called invalidate() and it returned
Idle == [phase |-> "idle", path |-> <<>>, ext |-> 0, inv |-> FALSE]

\* loggedOut: a logout (token invalidation, then provider invalidation) has
\* completed and no login followed by a passed MFA step has completed since
\* what is remembered of the run.
\* loggedOut: a logout was answered and no MFA was passed since
\* consumed: POST /login/mfa succeeded, and marked the session authenticated,
\*           since the last generate_code
\* purged: generate_code or check_code failed on a purging path and no login
\*         succeeded since
\* dead: the first of TimeIsUp and UnknownError that check_code returned
\*       since the last successful generate_code, "" when it returned neither
\* The other fields describe the login whose user the session holds and are
\* forgotten when the session loses its user:
\* principal: the user of that login
\* pvFresh: privateValue was written since that login
\* replaced: that login replaced the session of another user who had not
\*           passed MFA and under whom privateValue had been written
NoHistory ==
    [loggedOut |-> FALSE, consumed |-> FALSE, purged |-> FALSE, dead |-> "",
     principal |-> "", pvFresh |-> FALSE, replaced |-> FALSE]

\* history h after generate_code returned result
Generated(h, result) ==
    [h EXCEPT !.consumed = FALSE,
              !.purged = IF result = "Ok" THEN @ ELSE TRUE,
              !.dead = IF result = "Ok" THEN "" ELSE @]

\* history h after check_code returned result
Checked(h, result) ==
    [h EXCEPT !.purged = @ \/ result \in {"TimeIsUp", "UnknownError"},
              !.dead = IF @ = "" /\ result \in {"TimeIsUp", "UnknownError"}
                       THEN result ELSE @]

\* history h as it is kept once the session has become s
Remember(h, s) ==
    IF s[USER_KEY] # NoValue THEN h
    ELSE [h EXCEPT !.principal = "", !.pvFresh = FALSE, !.replaced = FALSE]

\* the record of a step: op is the operation, path the request path, cand
\* the candidate or generated code value, env the outcome of the collaborators
\* (session write, sender), prev the value of the code that was pending
\* before generate_code ran, result/status/body/user/pv what came back
Outcome(op) ==
    [op |-> op, path |-> <<>>, cand |-> "", env |-> "", prev |-> "",
     result |-> "", status |-> 0, body |-> "", user |-> "", pv |-> "",
     patterns |-> <<>>, invert |-> FALSE, sent |-> NoValue, calls |-> <<>>,
     handle |-> 0]

\* the value of the code pending in session s, "" when there is none
pending_value(s) ==
    IF s[MFA_RANDOM_CODE_KEY].type = "RandomCode"
    THEN s[MFA_RANDOM_CODE_KEY].value ELSE ""

\* the outcomes of send_code to draw: the sender is not reached after a
\* failed session write, so no outcome of it is distinguished there
SendOutcomes(insert_ok) == IF insert_ok THEN BOOLEAN ELSE {TRUE}

\* what the collaborators did during generate_code
Env(insert_ok, send_ok) ==
    IF ~insert_ok THEN "insert_fails"
    ELSE IF ~send_ok THEN "send_fails" ELSE "delivered"

\* the state in which application a starts to serve a new client
Start(a) ==
    /\ app = a
    /\ session = EmptySession
    /\ now = 0
    /\ req = Idle
    /\ heap = EmptyHeap
    /\ last = Outcome("init")
    /\ issued = NoValue
    /\ wrong = 0
    /\ passed = FALSE
    /\ hist = NoHistory

Init == Start(TestServer)

\* ---------------------------------------------------------------- actions
\* the clock advances
Tick ==
    /\ req.phase = "idle"
    /\ now < MaxTime
    /\ now' = now + 1
    /\ last' = Outcome("tick")
    /\ UNCHANGED <<session, req, heap, issued, wrong, passed, hist, app>>

\* Factor::generate_code called on the session
GenerateCode(v, e, insert_ok, send_ok) ==
    /\ req.phase = "idle"
    /\ LET r == generate_code(session, RandomCode(v, e), insert_ok, send_ok) IN
       /\ session' = r.session
       /\ last' = [Outcome("generate_code") EXCEPT
                       !.cand = v, !.env = Env(insert_ok, send_ok),
                       !.prev = pending_value(session),
                       !.result = r.result, !.body = r.cause,
                       !.sent = r.sent, !.calls = r.calls]
    /\ issued' = RandomCode(v, e)
    /\ wrong' = 0
    /\ hist' = Remember(Generated(hist, last'.result), session')
    /\ UNCHANGED <<now, req, heap, passed, app>>

\* Factor::check_code called on the session, without the marking step
CheckCode(code) ==
    /\ req.phase = "idle"
    /\ LET r == check_code(session, now, code) IN
       /\ r.result = "InvalidCode" => wrong < MaxWrong
       /\ session' = r.session
       /\ last' = [Outcome("check_code") EXCEPT
                       !.cand = code, !.result = r.result]
       /\ wrong' = IF r.result = "InvalidCode" THEN wrong + 1 ELSE wrong
    /\ passed' = (passed \/ accepts(session, now, code))
    /\ hist' = Remember(Checked(hist, last'.result), session')
    /\ UNCHANGED <<now, req, heap, issued, app>>

\* another handler writes a value of another type under the code's key
ForeignInsert ==
    /\ req.phase = "idle"
    /\ session' = session_insert(session, MFA_RANDOM_CODE_KEY,
                                 StringValue("some value"))
    /\ last' = Outcome("foreign_insert")
    /\ UNCHANGED <<now, req, heap, issued, wrong, passed, hist, app>>

\* GET /unsecure/manipulate-session: the handler runs where the application
\* registers it; the test server does not, and answers 404
ManipulateSession ==
    /\ req.phase = "idle"
    /\ AuthMiddleware_call(session, ManipulatePath).forward
    /\ IF ManipulatePath \in Routes(app)
       THEN /\ session' = session_insert(session, PRIVATE_VALUE_KEY,
                                         StringValue("some value"))
            /\ last' = [Outcome("manipulate_session") EXCEPT
                            !.path = ManipulatePath, !.status = OK]
            /\ hist' = Remember([hist EXCEPT !.pvFresh = TRUE], session')
       ELSE /\ session' = session
            /\ last' = [Outcome("manipulate_session") EXCEPT
                            !.path = ManipulatePath, !.result = "not_found",
                            !.status = NOT_FOUND]
            /\ hist' = hist
    /\ UNCHANGED <<now, req, heap, issued, wrong, passed, app>>

\* POST /login with accepted credentials of user u
Login(u, v, e, insert_ok, send_ok) ==
    /\ req.phase = "idle"
    /\ AuthMiddleware_call(session, LoginPath).forward
    /\ LET r == generate_code(login_session(session, u), RandomCode(v, e),
                              insert_ok, send_ok) IN
       /\ session' = r.session
       /\ last' = [Outcome("login") EXCEPT
                       !.path = LoginPath, !.cand = v,
                       !.env = Env(insert_ok, send_ok),
                       !.prev = pending_value(session), !.result = r.result,
                       !.status = IF r.result = "Ok" THEN OK ELSE UNAUTHORIZED,
                       !.body = r.cause, !.user = u,
                       !.sent = r.sent, !.calls = r.calls]
    /\ issued' = RandomCode(v, e)
    /\ wrong' = 0
    /\ passed' = FALSE
    /\ hist' = Remember([Generated(hist, last'.result) EXCEPT
                             !.purged = (last'.result # "Ok"),
                             !.principal = u, !.pvFresh = FALSE,
                             !.replaced =
                                 /\ Provider_get_authenticated_user(session).ok
                                 /\ Provider_get_authenticated_user(session).user # u
                                 /\ ~mfa_satisfied(session)
                                 /\ session[PRIVATE_VALUE_KEY] # NoValue],
                         session')
    /\ UNCHANGED <<now, req, heap, app>>

\* POST /login/mfa with a candidate code
MfaSubmit(code) ==
    /\ req.phase = "idle"
    /\ AuthMiddleware_call(session, MfaPath).forward
    /\ LET r == check_code(session, now, code) IN
       /\ r.result = "InvalidCode" => wrong < MaxWrong
       /\ session' = IF r.result = "Ok" THEN mark_authenticated(r.session)
                     ELSE r.session
       /\ last' = [Outcome("mfa") EXCEPT
                       !.path = MfaPath, !.cand = code, !.result = r.result,
                       !.status = IF r.result = "Ok" THEN OK ELSE UNAUTHORIZED]
       /\ wrong' = IF r.result = "InvalidCode" THEN wrong + 1 ELSE wrong
    /\ passed' = (passed \/ accepts(session, now, code))
    /\ hist' = Remember([Checked(hist, last'.result) EXCEPT
                             !.loggedOut =
                                 IF last'.result = "Ok"
                                    /\ Provider_get_authenticated_user(session).ok
                                 THEN FALSE ELSE @,
                             !.consumed = @ \/ last'.result = "Ok"],
                         session')
    /\ UNCHANGED <<now, req, heap, issued, app>>

\* a request to a route whose handler declares an AuthToken: the middleware
\* either answers 401 or forwards, injecting a token on a protected path;
\* a forwarded request that matches no route of the application gets 404
Request(path) ==
    /\ req.phase = "idle"
    /\ LET g == AuthMiddleware_call(session, path) IN
       IF g.forward /\ path \notin Routes(app)
       THEN /\ heap' = EmptyHeap
            /\ req' = Idle
            /\ last' = [Outcome("request") EXCEPT
                            !.path = path, !.result = "not_found",
                            !.status = NOT_FOUND]
       ELSE IF g.forward
       THEN /\ heap' = IF g.inject THEN AuthToken_new(EmptyHeap, g.user)
                       ELSE EmptyHeap
            /\ req' = [phase |-> "handler", path |-> path,
                       ext |-> IF g.inject THEN 1 ELSE 0, inv |-> FALSE]
            /\ last' = [Outcome("request") EXCEPT
                            !.path = path, !.result = "forward",
                            !.user = g.user]
       ELSE /\ heap' = EmptyHeap
            /\ req' = Idle
            /\ last' = [Outcome("request") EXCEPT
                            !.path = path, !.result = "rejected",
                            !.status = error_response(UnauthorizedError_default).status,
                            !.body = error_response(UnauthorizedError_default).body]
    /\ UNCHANGED <<session, now, issued, wrong, passed, hist, app>>

\* the handler's AuthToken extractor runs
HandlerExtract ==
    /\ req.phase = "handler"
    /\ Len(heap.handles) < MaxHandles
    /\ LET fr == from_request(heap, req.ext) IN
       IF fr.ok
       THEN /\ heap' = fr.heap
            /\ req' = req
            /\ last' = [Outcome("extract") EXCEPT
                            !.path = req.path, !.result = "Ok"]
       ELSE /\ heap' = EmptyHeap
            /\ req' = Idle
            /\ last' = [Outcome("extract") EXCEPT
                            !.path = req.path, !.result = "Err",
                            !.status = fr.response.status,
                            !.body = fr.response.body]
    /\ UNCHANGED <<session, now, issued, wrong, passed, hist, app>>

\* the handles the handler owns: the extracted ones
HandlerHandles == {h \in DOMAIN heap.handles : h # req.ext}

\* the handler takes a Ref<U> with get_authenticated_user
HandlerBorrow(h) ==
    /\ req.phase = "handler"
    /\ h \in HandlerHandles
    /\ heap.cells[heap.handles[h].inner].readers < MaxRefs
    /\ heap' = borrow_user(heap, h)
    /\ last' = [Outcome("borrow") EXCEPT
                    !.path = req.path, !.result = "Ok",
                    !.user = AuthToken_get_authenticated_user(heap, h)]
    /\ UNCHANGED <<session, now, req, issued, wrong, passed, hist, app>>

\* the handler drops a Ref<U>
HandlerRelease(h) ==
    /\ req.phase = "handler"
    /\ h \in HandlerHandles
    /\ heap.cells[heap.handles[h].inner].readers > 0
    /\ heap' = release_user(heap, h)
    /\ last' = [Outcome("release") EXCEPT !.path = req.path, !.result = "Ok"]
    /\ UNCHANGED <<session, now, req, issued, wrong, passed, hist, app>>

\* the logout handler calls token.invalidate(); borrow_mut panics while a
\* Ref of the cell is alive, which aborts the request
HandlerInvalidate(h) ==
    /\ req.phase = "handler"
    /\ req.path = LogoutPath
    /\ h \in HandlerHandles
    /\ IF can_borrow_mut(heap, h)
       THEN /\ heap' = AuthToken_invalidate(heap, h)
            /\ req' = [req EXCEPT !.inv = TRUE]
            /\ last' = [Outcome("invalidate") EXCEPT
                            !.path = req.path, !.result = "Ok"]
       ELSE /\ heap' = EmptyHeap
            /\ req' = Idle
            /\ last' = [Outcome("invalidate") EXCEPT
                            !.path = req.path, !.result = "panic",
                            !.body = "already borrowed"]
    /\ UNCHANGED <<session, now, issued, wrong, passed, hist, app>>

\* the handler answers; the middleware then asks the provider to invalidate
\* the session if the injected token was invalidated
HandlerRespond ==
    /\ req.phase = "handler"
    /\ HandlerHandles # {}
    /\ \A c \in DOMAIN heap.cells : heap.cells[c].readers = 0
    /\ LET h == CHOOSE x \in HandlerHandles : \A y \in HandlerHandles : x <= y
           pv == session_get(session, PRIVATE_VALUE_KEY, "String")
       IN last' = [Outcome("respond") EXCEPT
                       !.path = req.path, !.result = "Ok", !.status = OK,
                       !.user = AuthToken_get_authenticated_user(heap, h),
                       !.pv = IF pv.some THEN pv.val.s ELSE "na"]
    /\ session' = IF AuthToken_is_valid(heap, req.ext) THEN session
                  ELSE Provider_invalidate(session)
    /\ heap' = EmptyHeap
    /\ req' = Idle
    /\ hist' = Remember([hist EXCEPT !.loggedOut = IF req.inv THEN TRUE ELSE @],
                         session')
    /\ UNCHANGED <<now, issued, wrong, passed, app>>

Next ==
    \/ Tick
    \/ \E v \in CodeValues, e \in Expiries :
          \E i \in BOOLEAN : \E s \in SendOutcomes(i) : GenerateCode(v, e, i, s)
    \/ \E c \in Candidates : CheckCode(c)
    \/ ForeignInsert
    \/ ManipulateSession
    \/ \E u \in Users, v \in CodeValues, e \in Expiries :
          \E i \in BOOLEAN : \E s \in SendOutcomes(i) : Login(u, v, e, i, s)
    \/ \E c \in Candidates : MfaSubmit(c)
    \/ \E p \in {SecuredPath, LogoutPath, WhoamiPath} : Request(p)
    \/ HandlerExtract
    \/ \E h \in 1..MaxHandles : HandlerBorrow(h)
    \/ \E h \in 1..MaxHandles : HandlerRelease(h)
    \/ \E h \in 1..MaxHandles : HandlerInvalidate(h)
    \/ HandlerRespond

Spec == Init /\ [][Next]_vars

\* the same requests served by the application with the additional routes
InitApp == Start(ExampleApp)

SpecApp == InitApp /\ [][Next]_vars

\* ------------------------------------------------ PathMatcher on its own
\* a PathMatcher built from patterns and invert is asked about path
IsProtected(patterns, invert, path) ==
    /\ req.phase = "idle"
    /\ last' = [Outcome("is_protected") EXCEPT
                    !.path = path, !.patterns = patterns, !.invert = invert,
                    !.result = IF PathMatcher_is_protected(patterns, invert, path)
                               THEN "protected" ELSE "exempt"]
    /\ UNCHANGED <<session, now, req, heap, issued, wrong, passed, hist, app>>

NextPM ==
    \E patterns \in PatternLists, invert \in BOOLEAN, path \in Paths :
        IsProtected(patterns, invert, path)

SpecPM == Init /\ [][NextPM]_vars

\* -------------------------------------------------- AuthToken on its own
\* the crate's operations on tokens, several resolutions alive together
TokenNew(u) ==
    /\ req.phase = "idle"
    /\ Len(heap.cells) < MaxCells
    /\ Len(heap.handles) < MaxHandles
    /\ heap' = AuthToken_new(heap, u)
    /\ last' = [Outcome("new") EXCEPT
                    !.result = "Ok", !.user = u, !.handle = Len(heap'.handles)]
    /\ UNCHANGED <<session, now, req, issued, wrong, passed, hist, app>>

TokenFromRef(h) ==
    /\ req.phase = "idle"
    /\ h \in DOMAIN heap.handles
    /\ Len(heap.handles) < MaxHandles
    /\ heap' = AuthToken_from_ref(heap, h)
    /\ last' = [Outcome("from_ref") EXCEPT
                    !.result = "Ok", !.handle = Len(heap'.handles)]
    /\ UNCHANGED <<session, now, req, issued, wrong, passed, hist, app>>

\* get_authenticated_user: the caller keeps the Ref<U> it returns
TokenBorrow(h) ==
    /\ req.phase = "idle"
    /\ h \in DOMAIN heap.handles
    /\ heap.cells[heap.handles[h].inner].readers < MaxRefs
    /\ heap' = borrow_user(heap, h)
    /\ last' = [Outcome("get_authenticated_user") EXCEPT
                    !.result = "Ok", !.handle = h,
                    !.user = AuthToken_get_authenticated_user(heap, h)]
    /\ UNCHANGED <<session, now, req, issued, wrong, passed, hist, app>>

\* the caller drops a Ref<U>
TokenRelease(h) ==
    /\ req.phase = "idle"
    /\ h \in DOMAIN heap.handles
    /\ heap.cells[heap.handles[h].inner].readers > 0
    /\ heap' = release_user(heap, h)
    /\ last' = [Outcome("release") EXCEPT !.result = "Ok", !.handle = h]
    /\ UNCHANGED <<session, now, req, issued, wrong, passed, hist, app>>

\* invalidate(); borrow_mut panics while a Ref of the cell is alive and the
\* cell is then left as it was
TokenInvalidate(h) ==
    /\ req.phase = "idle"
    /\ h \in DOMAIN heap.handles
    /\ IF can_borrow_mut(heap, h)
       THEN /\ heap' = AuthToken_invalidate(heap, h)
            /\ last' = [Outcome("invalidate") EXCEPT
                            !.result = "Ok", !.handle = h]
       ELSE /\ heap' = heap
            /\ last' = [Outcome("invalidate") EXCEPT
                            !.result = "panic", !.body = "already borrowed",
                            !.handle = h]
    /\ UNCHANGED <<session, now, req, issued, wrong, passed, hist, app>>

NextTok ==
    \/ \E u \in Users : TokenNew(u)
    \/ \E h \in 1..MaxHandles : TokenFromRef(h)
    \/ \E h \in 1..MaxHandles : TokenBorrow(h)
    \/ \E h \in 1..MaxHandles : TokenRelease(h)
    \/ \E h \in 1..MaxHandles : TokenInvalidate(h)

SpecTok == Init /\ [][NextTok]_vars

\* ----------------------------------------------------------------- claims
\* the step just taken called check_code (directly or from POST /login/mfa)
CheckStep == last'.op \in {"check_code", "mfa"}

\* the step just taken called generate_code (directly or from POST /login)
GenerateState == last.op \in {"generate_code", "login"}

\* a RandomCode is pending in session s
Pending(s) == s[MFA_RANDOM_CODE_KEY].type = "RandomCode"

\* C1: check_code returns success only if the session holds a pending
\* RandomCode, now is strictly before its expiry and the candidate equals
\* the stored value; in every other case it returns a CheckCodeError.
C1_SuccessIffAccepted ==
    [][CheckStep =>
         /\ last'.result \in {"Ok", "UnknownError", "TimeIsUp", "InvalidCode"}
         /\ (last'.result = "Ok") = accepts(session, now, last'.cand)]_vars

C1_Witness ==
    /\ last.op = "check_code"
    /\ last.result = "Ok"
    /\ Pending(session)
    /\ last.cand = session[MFA_RANDOM_CODE_KEY].value

\* C2: with a pending code whose expiry is at or before now, check_code
\* fails with TimeIsUp for every candidate, equal to the stored value or
\* not, and afterwards no code is pending in the session.
C2_ExpiredIsTimeIsUp ==
    [][(CheckStep /\ Pending(session)
          /\ session[MFA_RANDOM_CODE_KEY].valid_until <= now) =>
         /\ last'.result = "TimeIsUp"
         /\ ~Pending(session')
         /\ session'[MFA_RANDOM_CODE_KEY] = NoValue]_vars

\* an expired code was refused although the candidate was its value
C2_Witness ==
    /\ last.op = "check_code"
    /\ last.result = "TimeIsUp"
    /\ issued.type = "RandomCode"
    /\ last.cand = issued.value
    /\ issued.valid_until <= now
    /\ ~Pending(session)

\* C3: before expiry, a candidate that differs from the stored value gets
\* InvalidCode and nothing is purged: the session after the call is the
\* session before it, the same pending code included.
C3_InvalidCodeKeepsSession ==
    [][(CheckStep /\ Pending(session)
          /\ now < session[MFA_RANDOM_CODE_KEY].valid_until
          /\ last'.cand # session[MFA_RANDOM_CODE_KEY].value) =>
         /\ last'.result = "InvalidCode"
         /\ session' = session
         /\ Pending(session')]_vars

C3_Witness ==
    /\ last.op = "check_code"
    /\ last.result = "InvalidCode"
    /\ Pending(session)
    /\ last.cand # session[MFA_RANDOM_CODE_KEY].value
    /\ now < session[MFA_RANDOM_CODE_KEY].valid_until
    /\ session[USER_KEY] # NoValue

\* C4: on a session with no pending code (nothing stored under the key, or
\* a stored value that does not load as a RandomCode) check_code fails with
\* UnknownError for every candidate and the session is purged.
C4_MissingCodeIsUnknownError ==
    [][(CheckStep /\ ~Pending(session)) =>
         /\ last'.result = "UnknownError"
         /\ session' = EmptySession]_vars

\* UnknownError was returned to a logged-in session that had lost its code
C4_Witness ==
    /\ last.op = "check_code"
    /\ last.result = "UnknownError"
    /\ last.cand \in CodeValues
    /\ session = EmptySession
    /\ wrong > 0

\* C5: generate_code is fail-closed: when the session write or the send
\* fails it returns a GenerateCodeError carrying the cause, and no code is
\* pending in the session after a generate_code that returned an error.
C5_GenerateFailClosed ==
    GenerateState =>
        /\ (last.env = "insert_fails") =>
               (last.result = "GenerateCodeError"
                /\ last.body = "SessionInsertError")
        /\ (last.env = "send_fails") =>
               (last.result = "GenerateCodeError" /\ last.body = "SendError")
        /\ (last.env = "delivered") => last.result = "Ok"
        /\ (last.result = "GenerateCodeError") =>
               (~Pending(session) /\ session[MFA_RANDOM_CODE_KEY] = NoValue)

\* the sender failed after the code had been written to the session
C5_Witness ==
    /\ last.op = "generate_code"
    /\ last.env = "send_fails"
    /\ last.result = "GenerateCodeError"
    /\ session[MFA_RANDOM_CODE_KEY] = NoValue

\* C6: with a Factor configured, a request on a protected path is forwarded
\* only if get_authenticated_user resolved a principal and an accepted code
\* was submitted since the login; a logged-in session that has not passed
\* check_code, and a session with no principal, get 401.
C6_GateNeedsPrincipalAndFactor ==
    [][(last'.op = "request" /\ is_protected(last'.path)) =>
         /\ (last'.result = "forward") =>
              /\ Provider_get_authenticated_user(session).ok
              /\ passed
              /\ last'.user = Provider_get_authenticated_user(session).user
         /\ (~Provider_get_authenticated_user(session).ok \/ ~passed) =>
              /\ last'.result = "rejected"
              /\ last'.status = UNAUTHORIZED
              /\ req'.phase = "idle"]_vars

\* a logged-in session with only wrong attempts was answered 401
C6_Witness ==
    /\ last.op = "request"
    /\ last.path = SecuredPath
    /\ last.result = "rejected"
    /\ last.status = UNAUTHORIZED
    /\ Provider_get_authenticated_user(session).ok
    /\ Pending(session)
    /\ wrong > 0
    /\ ~passed

\* all handles of heap H that descend from one AuthToken::new agree on is_valid
HandlesAgree(H) ==
    \A g, h \in DOMAIN H.handles :
        H.handles[g].origin = H.handles[h].origin =>
            AuthToken_is_valid(H, g) = AuthToken_is_valid(H, h)

\* C7: a token is valid when created; invalidate() on any handle makes
\* is_valid false on every handle of the same resolution, handles extracted
\* later included; a flag that is false never becomes true again.
C7_ValiditySharedOneWay ==
    [][/\ (last'.op = "request" /\ req'.ext # 0) =>
              AuthToken_is_valid(heap', req'.ext)
       /\ (last'.op = "invalidate" /\ last'.result = "Ok") =>
              \A g \in DOMAIN heap'.handles :
                  heap'.handles[g].origin = heap'.handles[req'.ext].origin =>
                      ~AuthToken_is_valid(heap', g)
       /\ \A c \in DOMAIN heap.cells \cap DOMAIN heap'.cells :
              ~heap.cells[c].is_valid => ~heap'.cells[c].is_valid
       /\ HandlesAgree(heap')]_vars

\* a handle was extracted after another handle had invalidated the token
C7_Witness ==
    /\ last.op = "extract"
    /\ last.result = "Ok"
    /\ Len(heap.handles) >= 3
    /\ \A h \in DOMAIN heap.handles : ~AuthToken_is_valid(heap, h)

\* C8: extracting AuthToken succeeds exactly when the middleware injected a
\* token, and then yields a handle on the injected token's cell; with no
\* token injected (exempt path) it fails with 401 "Not authorized", also
\* for a session with an authenticated user.
C8_ExtractionIffInjected ==
    [][(last'.op = "extract") =>
         /\ (last'.result = "Ok") = (req.ext # 0)
         /\ (req.ext # 0) = is_protected(req.path)
         /\ (last'.result = "Ok") =>
              /\ heap'.cells = heap.cells
              /\ Len(heap'.handles) = Len(heap.handles) + 1
              /\ heap'.handles[Len(heap'.handles)].inner
                     = heap.handles[req.ext].inner
         /\ (last'.result # "Ok") =>
              /\ last'.status = UNAUTHORIZED
              /\ last'.body = "Not authorized"
              /\ req'.phase = "idle"]_vars

\* the extraction failed on an exempt path for a fully authenticated session
C8_Witness ==
    /\ last.op = "extract"
    /\ last.result = "Err"
    /\ last.status = UNAUTHORIZED
    /\ ~is_protected(last.path)
    /\ Provider_get_authenticated_user(session).ok
    /\ mfa_satisfied(session)

\* C9: the session's slot holds at most one pending RandomCode, and it is
\* the most recently generated one: a successful generate_code overwrites
\* the prior code, and check_code accepts only the newest code's value.
C9_NewestCodeOnly ==
    /\ Pending(session) => session[MFA_RANDOM_CODE_KEY] = issued
    /\ (GenerateState /\ last.result = "Ok") =>
           /\ Pending(session)
           /\ session[MFA_RANDOM_CODE_KEY] = issued
           /\ issued.value = last.cand
    /\ (last.op \in {"check_code", "mfa"} /\ last.result = "Ok") =>
           /\ issued.type = "RandomCode"
           /\ last.cand = issued.value
           /\ now < issued.valid_until

\* generate_code replaced a pending code by one with another value
C9_Witness ==
    /\ last.op = "generate_code"
    /\ last.result = "Ok"
    /\ last.prev \in CodeValues
    /\ last.prev # last.cand
    /\ pending_value(session) = last.cand

\* C10: a wrong submission before expiry changes nothing in the session, so
\* after any number of them the correct code still passes the MFA step, and
\* a request to the secured route is then forwarded and answered 200.
C10_RetryAfterFailure ==
    [][/\ (last'.op = "mfa" /\ Pending(session)
             /\ now < session[MFA_RANDOM_CODE_KEY].valid_until
             /\ last'.cand # session[MFA_RANDOM_CODE_KEY].value) =>
              (last'.status = UNAUTHORIZED /\ session' = session)
       /\ (last'.op = "mfa" /\ accepts(session, now, last'.cand)
             /\ Provider_get_authenticated_user(session).ok) =>
              /\ last'.status = OK
              /\ AuthMiddleware_call(session', SecuredPath).forward
              /\ AuthMiddleware_call(session', SecuredPath).inject
       /\ (last'.op = "request" /\ last'.path = SecuredPath
             /\ AuthMiddleware_call(session, SecuredPath).forward) =>
              (last'.result = "forward" /\ req'.phase = "handler")
       /\ (req.phase = "handler" /\ req.path = SecuredPath
             /\ req'.phase = "idle") =>
              /\ last'.status = OK
              /\ last'.user = Provider_get_authenticated_user(session).user]_vars

\* the correct code passed the MFA step after wrong submissions
C10_Witness ==
    /\ last.op = "mfa"
    /\ last.status = OK
    /\ wrong > 0
    /\ Provider_get_authenticated_user(session).ok
    /\ AuthMiddleware_call(session, SecuredPath).forward

\* C11: after a logout (the handler invalidates its token, the middleware
\* then invalidates the provider's session state) every request to a
\* protected route is answered 401 until a new login and MFA step complete.
C11_LogoutEndsAuthentication ==
    [][/\ (last'.op = "request" /\ is_protected(last'.path) /\ hist.loggedOut) =>
              /\ last'.result = "rejected"
              /\ last'.status = UNAUTHORIZED
       /\ (last'.op = "respond" /\ req.inv) =>
              /\ hist'.loggedOut
              /\ ~Provider_get_authenticated_user(session').ok
              /\ ~AuthMiddleware_call(session', SecuredPath).forward]_vars

\* the secured route was refused to a session that had logged out
C11_Witness ==
    /\ last.op = "request"
    /\ last.path = SecuredPath
    /\ last.result = "rejected"
    /\ last.status = UNAUTHORIZED
    /\ hist.loggedOut
    /\ passed

\* C12: a second login before MFA was passed replaces the first: after it
\* the session holds the new user, no MFA pass and none of the values
\* written before it, and the secured route answers with the user of the
\* most recent login and only with a privateValue written since that login.
C12_SecondLoginReplacesFirst ==
    [][/\ (last'.op = "login" /\ last'.result = "Ok") =>
              /\ Provider_get_authenticated_user(session').ok
              /\ Provider_get_authenticated_user(session').user = last'.user
              /\ session'[PRIVATE_VALUE_KEY] = NoValue
              /\ ~mfa_satisfied(session')
       /\ (last'.op = "respond" /\ last'.path = SecuredPath) =>
              /\ last'.user = hist.principal
              /\ (last'.pv # "na") => hist.pvFresh]_vars

\* bob, logged in over anna's session with its privateValue, passed MFA and
\* the secured route answered with bob and no privateValue
C12_Witness ==
    /\ last.op = "respond"
    /\ last.path = SecuredPath
    /\ last.status = OK
    /\ hist.replaced
    /\ hist.principal = "bob"
    /\ last.user = "bob"
    /\ last.pv = "na"

\* C13: is_protected(P) is true iff P matches some declared pattern when
\* invert is false and iff P matches no declared pattern when invert is
\* true, and the answer is the same for every order of declaration.
C13_ProtectedIffMatchedAnyOrder ==
    last.op = "is_protected" =>
        LET S == last.patterns
            P == last.path
            matched == \E i \in DOMAIN S : pattern_matches(S[i], P)
        IN /\ (last.result = "protected") =
                  (IF last.invert THEN ~matched ELSE matched)
           /\ \A f \in Permutations(DOMAIN S) :
                  PathMatcher_is_protected([i \in DOMAIN S |-> S[f[i]]],
                                           last.invert, P)
                      = (last.result = "protected")

\* /login/mfa is exempt under the inverted set in which "/login", the only
\* pattern it matches, is declared last
C13_Witness ==
    /\ last.op = "is_protected"
    /\ last.patterns = << <<"unsecure", "*">>, <<"login">> >>
    /\ last.invert
    /\ last.path = MfaPath
    /\ last.result = "exempt"

\* C14: with every success followed by the step that marks the session
\* authenticated (POST /login/mfa), one generated code succeeds once: the
\* pending code's value submitted before expiry succeeds, the success
\* leaves no code pending, and after it no check_code, with the same value
\* or any other, succeeds until generate_code is called again.
C14_OneSuccessPerCode ==
    [][/\ (last'.op = "mfa" /\ accepts(session, now, last'.cand)) =>
              last'.result = "Ok"
       /\ (last'.op = "mfa" /\ last'.result = "Ok") =>
              /\ ~hist.consumed
              /\ hist'.consumed
              /\ ~Pending(session')
       /\ (CheckStep /\ hist.consumed) => last'.result # "Ok"]_vars

\* the value that had succeeded was submitted again before its expiry and
\* was refused
C14_Witness ==
    /\ last.op = "mfa"
    /\ hist.consumed
    /\ issued.type = "RandomCode"
    /\ last.cand = issued.value
    /\ now < issued.valid_until
    /\ last.result = "UnknownError"

\* C15: a successful check_code changes nothing in the session: the pending
\* code, with its value and expiry, and every other value are after the
\* call what they were before it.
C15_SuccessLeavesSession ==
    [][(last'.op = "check_code" /\ last'.result = "Ok") =>
         /\ session' = session
         /\ Pending(session')
         /\ session'[MFA_RANDOM_CODE_KEY] = session[MFA_RANDOM_CODE_KEY]]_vars

\* check_code succeeded on the session of a login, and the code, the user
\* and the MFA flag of that login are still there
C15_Witness ==
    /\ last.op = "check_code"
    /\ last.result = "Ok"
    /\ Pending(session)
    /\ session[USER_KEY] # NoValue
    /\ session[MFA_DONE_KEY] = BoolValue(FALSE)

\* the positions of call c in the sequence of calls cs
Positions(cs, c) == {i \in DOMAIN cs : cs[i] = c}

\* C16: generate_code calls the generator once, writes the code to the
\* session before it calls the sender, does not call the sender when the
\* write failed, and on success the session holds the code, value and
\* expiry, that was handed to the sender.
C16_WriteBeforeSend ==
    [][(last'.op \in {"generate_code", "login"}) =>
         LET cs == last'.calls IN
         /\ Cardinality(Positions(cs, "code_generator")) = 1
         /\ \A i \in Positions(cs, "send_code") :
                \E j \in Positions(cs, "session.insert") : j < i
         /\ last'.env = "insert_fails" =>
                /\ Positions(cs, "send_code") = {}
                /\ last'.sent = NoValue
         /\ last'.result = "Ok" =>
                /\ Positions(cs, "send_code") # {}
                /\ last'.sent.type = "RandomCode"
                /\ session'[MFA_RANDOM_CODE_KEY] = last'.sent]_vars

\* a code that replaced an older pending one was written, then sent, and
\* the session holds what was sent
C16_Witness ==
    /\ last.op = "generate_code"
    /\ last.result = "Ok"
    /\ last.prev # ""
    /\ last.prev # last.cand
    /\ last.calls = <<"code_generator", "session.insert", "send_code">>
    /\ session[MFA_RANDOM_CODE_KEY] = last.sent

\* C17: invalidate() completes in every state of a request, also while a
\* handle of the same token holds a read view of the principal taken with
\* get_authenticated_user, and after it is_valid is false on every handle.
\* The code does not satisfy this: get_authenticated_user returns a Ref<U>
\* of the RefCell and invalidate() takes borrow_mut() of the same RefCell,
\* which panics while the Ref is alive.
C17_InvalidateNeverFails ==
    [][(last'.op = "invalidate") =>
         /\ last'.result = "Ok"
         /\ req'.phase = "handler"
         /\ \A g \in DOMAIN heap'.handles : ~AuthToken_is_valid(heap', g)]_vars

\* the step just taken was a failure of MfaRandomCode on a purging path
PurgingFailure ==
    \/ last'.op \in {"generate_code", "login"} /\ last'.result = "GenerateCodeError"
    \/ CheckStep /\ last'.result \in {"TimeIsUp", "UnknownError"}

\* C18: every purging failure path (generate_code with a failed write or a
\* failed send, check_code returning TimeIsUp or UnknownError) leaves the
\* session without any value, the user of the primary login included, and
\* from then on a request to a protected route is answered 401 until a
\* login succeeds.
C18_PurgeEmptiesSession ==
    [][/\ PurgingFailure =>
              /\ session' = EmptySession
              /\ \A k \in Keys : session'[k] = NoValue
              /\ ~Provider_get_authenticated_user(session').ok
              /\ hist'.purged
       /\ (last'.op = "request" /\ is_protected(last'.path) /\ hist.purged) =>
              /\ last'.result = "rejected"
              /\ last'.status = UNAUTHORIZED]_vars

\* a session that had passed MFA lost its user to a purging failure and the
\* secured route answered 401
C18_Witness ==
    /\ last.op = "request"
    /\ last.path = SecuredPath
    /\ last.status = UNAUTHORIZED
    /\ hist.purged
    /\ hist.consumed
    /\ passed
    /\ ~hist.loggedOut

\* C19: once check_code has returned TimeIsUp or UnknownError, every further
\* check_code, for any candidate, returns UnknownError until a generate_code
\* succeeds.
C19_NoRetryAfterPurge ==
    [][(CheckStep /\ hist.dead # "") => last'.result = "UnknownError"]_vars

\* after TimeIsUp the value of the expired code was tried again and got
\* UnknownError
C19_Witness ==
    /\ last.op = "check_code"
    /\ last.result = "UnknownError"
    /\ hist.dead = "TimeIsUp"
    /\ issued.type = "RandomCode"
    /\ last.cand = issued.value

\* C20: no AuthToken operation changes the principal: every handle shows
\* after each operation the principal it showed before, invalidate changes
\* nothing but the validity flag of its own token, and the validity of the
\* tokens of every other resolution is what it was.
C20_PrincipalAndOthersUntouched ==
    [][/\ \A h \in DOMAIN heap.handles \cap DOMAIN heap'.handles :
              AuthToken_get_authenticated_user(heap', h)
                  = AuthToken_get_authenticated_user(heap, h)
       /\ (last'.op = "invalidate") =>
              /\ DOMAIN heap'.cells = DOMAIN heap.cells
              /\ heap'.handles = heap.handles
              /\ \A c \in DOMAIN heap.cells :
                     /\ heap'.cells[c].user = heap.cells[c].user
                     /\ heap'.cells[c].readers = heap.cells[c].readers
              /\ \A g \in DOMAIN heap.handles :
                     heap.handles[g].origin # heap.handles[last'.handle].origin =>
                         AuthToken_is_valid(heap', g) = AuthToken_is_valid(heap, g)]_vars

\* of the tokens of two resolutions with different principals, one was
\* invalidated through one of its two handles; the other is still valid
\* and both show their principals
C20_Witness ==
    /\ last.op = "invalidate"
    /\ last.result = "Ok"
    /\ Len(heap.handles) = 3
    /\ Len(heap.cells) = 2
    /\ heap.cells[1].user # heap.cells[2].user
    /\ \E g \in DOMAIN heap.handles :
           /\ g # last.handle
           /\ heap.handles[g].inner = heap.handles[last.handle].inner
           /\ ~AuthToken_is_valid(heap, g)
    /\ \E g \in DOMAIN heap.handles :
           /\ heap.handles[g].origin # heap.handles[last.handle].origin
           /\ AuthToken_is_valid(heap, g)

====
